---------------------------- MODULE Spec2Model ----------------------------
(***************************************************************************)
(* The Bravyi-Kitaev super-fast mapper of                                  *)
(* src/qiskit_nature/mappers/second_quantization/bksf.py.                  *)
(*                                                                         *)
(* Conventions of the model:                                               *)
(*  - an operator string is a sequence of one-character strings; position  *)
(*    n of the sequence is mode n-1 of the Python string;                  *)
(*  - a factor (i, c) is the pair <<i, c>> with i the 0-based mode;        *)
(*  - a function that may raise returns a record whose field exc is        *)
(*    "none" or the name of the exception;                                 *)
(*  - a numpy vector of length E is a function on 0..E-1;                  *)
(*  - a complex coefficient is a pair <<re, im>> of integers; the scalar   *)
(*    factors 1/2, 1/4 and 1/8 of the five conversion formulas are taken   *)
(*    as 4, 2 and 1, so what _convert_operators accumulates and map        *)
(*    returns is 8 times the value the program computes, exactly.          *)
(***************************************************************************)
EXTENDS Integers, Sequences, FiniteSets, TLC

VARIABLES
    fer_op,        \* the FermionicOp handed to map: a sequence of <<string, coeff>>
    pc,            \* position inside BravyiKitaevSFMapper.map
    edge_matrix,   \* the adjacency matrix under construction
    edge_list,     \* the 2xE edge list, as a sequence of columns <<from, to>>
    k,             \* index of the term the current loop is about to visit
    sparse_pauli,  \* the accumulator of _convert_operators
    skipped,       \* indices of the terms the loop of _convert_operators skipped
    result,        \* the value map returned
    err,           \* the exception map ended with, "none" if none
    call,          \* the last direct call of a module-level function
    ret            \* what that call returned

vars == <<fer_op, pc, edge_matrix, edge_list, k, sparse_pauli, skipped,
          result, err, call, ret>>

---------------------------------------------------------------------------
(* Bounds of the model.                                                    *)

\* L, the number of modes of every operator string of an input operator
NModes == 5
\* the most terms an input operator holds
MaxTerms == 2
\* _interaction_type is called with counts in 0..MaxCount
MaxCount == 4
\* the edge operators are called on graphs over the modes 0..GraphModes-1
GraphModes == 4
\* _to_physicist_index_order is called with lists of up to MaxFacs factors
MaxFacs == 5
\* the conversion formulas are called on graphs over the modes 0..FormulaModes-1
FormulaModes == 3

---------------------------------------------------------------------------
(* Small helpers.                                                          *)

\* lexicographic order on pairs of integers
PairLess(a, b) == a[1] < b[1] \/ (a[1] = b[1] /\ a[2] < b[2])

---------------------------------------------------------------------------
(* TermClassifier: _unpack_term, _interaction_type, _analyze_term.         *)

RECURSIVE UnpackFrom(_, _, _)
UnpackFrom(term_str, n, expand_number_op) ==
    IF n > Len(term_str) THEN <<>>
    ELSE LET c == term_str[n]
             i == n - 1
             rest == UnpackFrom(term_str, n + 1, expand_number_op)
         IN  CASE c = "I" -> rest
               [] c = "+" -> <<<<i, "+">>>> \o rest
               [] c = "-" -> <<<<i, "-">>>> \o rest
               [] c = "N" -> IF expand_number_op
                             THEN <<<<i, "+">>, <<i, "-">>>> \o rest
                             ELSE <<<<i, "N">>>> \o rest
               [] OTHER -> rest

CountOf(term_str, c) == Cardinality({n \in 1 .. Len(term_str) : term_str[n] = c})

_unpack_term(term_str, expand_number_op) ==
    IF \E n \in 1 .. Len(term_str) : term_str[n] \notin {"I", "+", "-", "N"}
    THEN [exc |-> "ValueError", counts |-> <<0, 0, 0>>, facs |-> <<>>]
    ELSE [exc |-> "none",
          counts |-> <<CountOf(term_str, "N"), CountOf(term_str, "+"),
                       CountOf(term_str, "-")>>,
          facs |-> UnpackFrom(term_str, 1, expand_number_op)]

_interaction_type(n_number, n_raise, n_lower) ==
    IF n_raise = 0 /\ n_lower = 0
    THEN IF n_number = 1 THEN "number"
         ELSE IF n_number = 2 THEN "coulomb_exchange"
         ELSE "ValueError"
    ELSE IF n_raise = 1 /\ n_lower = 1
    THEN IF n_number = 1 THEN "number_excitation"
         ELSE IF n_number = 0 THEN "excitation"
         ELSE "ValueError"
    ELSE IF n_raise = 2 /\ n_lower = 2
    THEN "double_excitation"
    ELSE "ValueError"

_analyze_term(term_str) ==
    LET u == _unpack_term(term_str, TRUE)
        ttype == _interaction_type(u.counts[1], u.counts[2], u.counts[3])
    IN  IF u.exc # "none" THEN [exc |-> u.exc, ttype |-> "", facs |-> <<>>]
        ELSE IF ttype = "ValueError"
        THEN [exc |-> "ValueError", ttype |-> "", facs |-> <<>>]
        ELSE [exc |-> "none", ttype |-> ttype, facs |-> u.facs]

---------------------------------------------------------------------------
(* GraphBuilder and EdgeIndexer.                                           *)

number_of_modes(op) == Len(op[1][1])

operator_string(term) == term[1]

operator_coefficient(term) == term[2]

\* np.zeros((n_modes, n_modes), dtype=bool)
ZeroMatrix(n_modes) ==
    [p \in (0 .. (n_modes - 1)) \X (0 .. (n_modes - 1)) |-> FALSE]

_add_one_edge(m, i, j) ==
    IF i < j THEN [exc |-> "none", m |-> [m EXCEPT ![<<i, j>>] = TRUE]]
    ELSE IF j < i THEN [exc |-> "none", m |-> [m EXCEPT ![<<j, i>>] = TRUE]]
    ELSE [exc |-> "ValueError", m |-> m]

IsLadder(fac) == fac[2] \in {"+", "-"}

IsRaise(fac) == fac[2] = "+"

IsLower(fac) == fac[2] = "-"

\* _add_edges_for_term joining the first two factors of any kind, N included
_add_edges_for_term_any_factor(m, term_str) ==
    LET u == _unpack_term(term_str, FALSE)
        ttype == _interaction_type(u.counts[1], u.counts[2], u.counts[3])
    IN  IF u.exc # "none" THEN [exc |-> u.exc, m |-> m]
        ELSE IF ttype = "ValueError" THEN [exc |-> "ValueError", m |-> m]
        ELSE IF ttype \in {"excitation", "number_excitation"}
        THEN _add_one_edge(m, u.facs[1][1], u.facs[2][1])
        ELSE IF ttype = "double_excitation"
        THEN LET raise_inds == SelectSeq(u.facs, IsRaise)
                 lower_inds == SelectSeq(u.facs, IsLower)
                 first == _add_one_edge(m, raise_inds[1][1], raise_inds[2][1])
             IN  IF first.exc # "none" THEN first
                 ELSE _add_one_edge(first.m, lower_inds[1][1], lower_inds[2][1])
        ELSE [exc |-> "none", m |-> m]

\* _add_edges_for_term joining, for a double excitation, each + with a -
_add_edges_for_term_raise_to_lower(m, term_str) ==
    LET u == _unpack_term(term_str, FALSE)
        ttype == _interaction_type(u.counts[1], u.counts[2], u.counts[3])
    IN  IF u.exc # "none" THEN [exc |-> u.exc, m |-> m]
        ELSE IF ttype = "ValueError" THEN [exc |-> "ValueError", m |-> m]
        ELSE IF ttype \in {"excitation", "number_excitation"}
        THEN LET inds == SelectSeq(u.facs, IsLadder)
             IN  IF Len(inds) # 2 THEN [exc |-> "ValueError", m |-> m]
                 ELSE _add_one_edge(m, inds[1][1], inds[2][1])
        ELSE IF ttype = "double_excitation"
        THEN LET raise_inds == SelectSeq(u.facs, IsRaise)
                 lower_inds == SelectSeq(u.facs, IsLower)
                 first == _add_one_edge(m, raise_inds[1][1], lower_inds[1][1])
             IN  IF first.exc # "none" THEN first
                 ELSE _add_one_edge(first.m, raise_inds[2][1], lower_inds[2][1])
        ELSE [exc |-> "none", m |-> m]

_add_edges_for_term(m, term_str) ==
    LET u == _unpack_term(term_str, FALSE)
        ttype == _interaction_type(u.counts[1], u.counts[2], u.counts[3])
    IN  IF u.exc # "none" THEN [exc |-> u.exc, m |-> m]
        ELSE IF ttype = "ValueError" THEN [exc |-> "ValueError", m |-> m]
        ELSE IF ttype \in {"excitation", "number_excitation"}
        THEN LET inds == SelectSeq(u.facs, IsLadder)
             IN  IF Len(inds) # 2 THEN [exc |-> "ValueError", m |-> m]
                 ELSE _add_one_edge(m, inds[1][1], inds[2][1])
        ELSE IF ttype = "double_excitation"
        THEN LET raise_inds == SelectSeq(u.facs, IsRaise)
                 lower_inds == SelectSeq(u.facs, IsLower)
                 first == _add_one_edge(m, raise_inds[1][1], raise_inds[2][1])
             IN  IF first.exc # "none" THEN first
                 ELSE _add_one_edge(first.m, lower_inds[1][1], lower_inds[2][1])
        ELSE [exc |-> "none", m |-> m]

\* np.nonzero of a boolean matrix: the True cells in row-major order
RECURSIVE SortedPairs(_)
SortedPairs(S) ==
    IF S = {} THEN <<>>
    ELSE LET least == CHOOSE a \in S : \A b \in S : a = b \/ PairLess(a, b)
         IN  <<least>> \o SortedPairs(S \ {least})

\* the True cells in column-major order
Nonzero_column_major(m) ==
    LET flipped == SortedPairs({<<p[2], p[1]>> : p \in {q \in DOMAIN m : m[q]}})
    IN  [n \in 1 .. Len(flipped) |-> <<flipped[n][2], flipped[n][1]>>]

Nonzero(m) == SortedPairs({p \in DOMAIN m : m[p]})

---------------------------------------------------------------------------
(* The sparse Pauli algebra the mapper builds on (qiskit.quantum_info).    *)
(* A Pauli is [z, x, coeff]; a SparsePauliOp is a sequence of them.        *)

Xor(a, b) == (a /\ ~b) \/ (~a /\ b)

CMul(a, b) == <<a[1] * b[1] - a[2] * b[2], a[1] * b[2] + a[2] * b[1]>>

CAdd(a, b) == <<a[1] + b[1], a[2] + b[2]>>

\* i to the power n
IPow(n) ==
    CASE n % 4 = 0 -> <<1, 0>>
      [] n % 4 = 1 -> <<0, 1>>
      [] n % 4 = 2 -> <<-1, 0>>
      [] n % 4 = 3 -> <<0, -1>>

\* the letter of one qubit: I, X, Y, Z as 0, 1, 2, 3
Letter(z, x) == IF x THEN (IF z THEN 2 ELSE 1) ELSE (IF z THEN 3 ELSE 0)

\* the power of i in the product of two one-qubit letters: XY = iZ, YX = -iZ, ...
LetterPhase(a, b) ==
    IF a = 0 \/ b = 0 \/ a = b THEN 0
    ELSE IF <<a, b>> \in {<<1, 2>>, <<2, 3>>, <<3, 1>>} THEN 1
    ELSE 3

RECURSIVE SumPhase(_, _, _)
SumPhase(p, q, n) ==
    IF n < 0 THEN 0
    ELSE LetterPhase(Letter(p.z[n], p.x[n]), Letter(q.z[n], q.x[n]))
         + SumPhase(p, q, n - 1)

\* the matrix product p.q of two Pauli terms on the same qubits
PauliDot(p, q) ==
    [z |-> [n \in DOMAIN p.z |-> Xor(p.z[n], q.z[n])],
     x |-> [n \in DOMAIN p.x |-> Xor(p.x[n], q.x[n])],
     coeff |-> CMul(CMul(p.coeff, q.coeff),
                    IPow(SumPhase(p, q, Cardinality(DOMAIN p.z) - 1)))]

\* SparsePauliOp(Pauli((z, x))): one term of coefficient 1
SparsePauliOp(z, x) == <<[z |-> z, x |-> x, coeff |-> <<1, 0>>]>>

\* a.dot(b), written a * b in the source: every product a[m].b[n]
Dot(a, b) ==
    [n \in 1 .. (Len(a) * Len(b)) |->
        PauliDot(a[((n - 1) \div Len(b)) + 1], b[((n - 1) % Len(b)) + 1])]

\* a.compose(b), written a & b in the source: b after a, the matrix product b.a
Compose(a, b) == Dot(b, a)

Scale(c, a) == [n \in 1 .. Len(a) |-> [a[n] EXCEPT !.coeff = CMul(c, a[n].coeff)]]

Neg(a) == Scale(<<-1, 0>>, a)

Add(a, b) == a \o b

Sub(a, b) == a \o Neg(b)

SameString(p, q) == p.z = q.z /\ p.x = q.x

RECURSIVE SumCoeffs(_, _, _)
SumCoeffs(a, p, n) ==
    IF n > Len(a) THEN <<0, 0>>
    ELSE IF SameString(a[n], p) THEN CAdd(a[n].coeff, SumCoeffs(a, p, n + 1))
    ELSE SumCoeffs(a, p, n + 1)

\* the first occurrence of each Pauli string of a, with the summed coefficient
RECURSIVE Merge(_, _)
Merge(a, n) ==
    IF n > Len(a) THEN <<>>
    ELSE IF \E m \in 1 .. (n - 1) : SameString(a[m], a[n]) THEN Merge(a, n + 1)
    ELSE <<[a[n] EXCEPT !.coeff = SumCoeffs(a, a[n], 1)]>> \o Merge(a, n + 1)

NonZeroCoeff(p) == p.coeff # <<0, 0>>

\* SparsePauliOp.simplify: merge equal strings, drop the zero coefficients; an
\* operator left with no term is the identity string with coefficient 0
Simplify(a) ==
    LET kept == SelectSeq(Merge(a, 1), NonZeroCoeff)
    IN  IF kept # <<>> THEN kept
        ELSE <<[z |-> [n \in DOMAIN a[1].z |-> FALSE],
                x |-> [n \in DOMAIN a[1].x |-> FALSE],
                coeff |-> <<0, 0>>]>>

\* the order of PauliTable.argsort: by letter, I < X < Y < Z, the last qubit
\* being the most significant
RECURSIVE StringLess(_, _, _)
StringLess(p, q, n) ==
    IF n < 0 THEN FALSE
    ELSE LET a == Letter(p.z[n], p.x[n])
             b == Letter(q.z[n], q.x[n])
         IN  a < b \/ (a = b /\ StringLess(p, q, n - 1))

PauliLess(p, q) == StringLess(p, q, Cardinality(DOMAIN p.z) - 1)

\* the terms of a, stably sorted by PauliLess
RECURSIVE SortTerms(_)
SortTerms(a) ==
    IF a = <<>> THEN <<>>
    ELSE LET least == CHOOSE m \in 1 .. Len(a) :
                        \A n \in 1 .. Len(a) :
                            ~PauliLess(a[n], a[m]) /\ (SameString(a[n], a[m]) => m <= n)
             rest == [n \in 1 .. (Len(a) - 1) |-> IF n < least THEN a[n] ELSE a[n + 1]]
         IN  <<a[least]>> \o SortTerms(rest)

---------------------------------------------------------------------------
(* EdgeOperators: edge_operator_bi, edge_operator_aij, _pauli_id.          *)

_pauli_id(n_qubits) ==
    SparsePauliOp([n \in 0 .. (n_qubits - 1) |-> FALSE],
                  [n \in 0 .. (n_qubits - 1) |-> FALSE])

\* edge_list[:, pos], the column at 0-based position pos
Column(el, pos) == el[pos + 1]

\* edge_operator_bi looking for mode i in the first row of the edge list only
edge_operator_bi_first_row(el, i) ==
    LET E == Len(el)
        v == [pos \in 0 .. (E - 1) |-> Column(el, pos)[1] = i]
        w == [pos \in 0 .. (E - 1) |-> FALSE]
    IN  SparsePauliOp(v, w)

edge_operator_bi(el, i) ==
    LET E == Len(el)
        v == [pos \in 0 .. (E - 1) |-> Column(el, pos)[1] = i \/ Column(el, pos)[2] = i]
        w == [pos \in 0 .. (E - 1) |-> FALSE]
    IN  SparsePauliOp(v, w)

\* the loop of lines 350-353: the first column holding exactly i and j, else -1
PositionIJ(el, i, j) ==
    LET hits == {pos \in 0 .. (Len(el) - 1) :
                    {i, j} = {Column(el, pos)[1], Column(el, pos)[2]}}
    IN  IF hits = {} THEN -1
        ELSE CHOOSE pos \in hits : \A other \in hits : pos <= other

\* the loops of lines 357-361 and 363-368: column pos holds mode a in one row
\* and, in the other row, a mode less than bound
MarksZ(el, pos, a, bound) ==
    \/ Column(el, pos)[1] = a /\ Column(el, pos)[2] < bound
    \/ Column(el, pos)[2] = a /\ Column(el, pos)[1] < bound

\* edge_operator_aij comparing the other endpoint with <= instead of <
MarksZ_or_equal(el, pos, a, bound) ==
    \/ Column(el, pos)[1] = a /\ Column(el, pos)[2] <= bound
    \/ Column(el, pos)[2] = a /\ Column(el, pos)[1] <= bound

edge_operator_aij_or_equal(el, i, j) ==
    LET E == Len(el)
        position_ij == PositionIJ(el, i, j)
        at == IF position_ij = -1 THEN E - 1 ELSE position_ij
        w == [pos \in 0 .. (E - 1) |-> pos = at]
        v == [pos \in 0 .. (E - 1) |->
                MarksZ_or_equal(el, pos, i, j) \/ MarksZ_or_equal(el, pos, j, i)]
    IN  IF position_ij = -1 /\ E = 0
        THEN [exc |-> "IndexError", op |-> <<>>]
        ELSE [exc |-> "none", op |-> SparsePauliOp(v, w)]

\* edge_operator_aij without the loop over the edges of j (lines 363-368)
edge_operator_aij_i_only(el, i, j) ==
    LET E == Len(el)
        position_ij == PositionIJ(el, i, j)
        at == IF position_ij = -1 THEN E - 1 ELSE position_ij
        w == [pos \in 0 .. (E - 1) |-> pos = at]
        v == [pos \in 0 .. (E - 1) |-> MarksZ(el, pos, i, j)]
    IN  IF position_ij = -1 /\ E = 0
        THEN [exc |-> "IndexError", op |-> <<>>]
        ELSE [exc |-> "none", op |-> SparsePauliOp(v, w)]

edge_operator_aij(el, i, j) ==
    LET E == Len(el)
        position_ij == PositionIJ(el, i, j)
        \* a numpy index of -1 is the last element
        at == IF position_ij = -1 THEN E - 1 ELSE position_ij
        w == [pos \in 0 .. (E - 1) |-> pos = at]
        v == [pos \in 0 .. (E - 1) |-> MarksZ(el, pos, i, j) \/ MarksZ(el, pos, j, i)]
    IN  IF position_ij = -1 /\ E = 0
        THEN [exc |-> "IndexError", op |-> <<>>]
        ELSE [exc |-> "none", op |-> SparsePauliOp(v, w)]

---------------------------------------------------------------------------
(* TermConverter: the five formulas.  Each returns [exc, op].              *)

Raised(e) == [exc |-> e, op |-> <<>>]

Returned(op) == [exc |-> "none", op |-> op]

_number_operator(el, p, h1_pq) ==
    LET b_p == edge_operator_bi(el, p)
        id_op == _pauli_id(Len(el))
    IN  Returned(Scale(CMul(<<4, 0>>, h1_pq), Sub(id_op, b_p)))

\* _coulomb_exchange taking the coefficient of two commutations whatever s
_coulomb_exchange_two_commutations(el, p, q, s, h2_pqrs) ==
    LET b_p == edge_operator_bi(el, p)
        b_q == edge_operator_bi(el, q)
        id_op == _pauli_id(Len(el))
        qubit_op == Dot(Sub(id_op, b_p), Sub(id_op, b_q))
    IN  Returned(Scale(CMul(<<2, 0>>, h2_pqrs), qubit_op))

_coulomb_exchange(el, p, q, s, h2_pqrs) ==
    LET b_p == edge_operator_bi(el, p)
        b_q == edge_operator_bi(el, q)
        id_op == _pauli_id(Len(el))
        qubit_op == Dot(Sub(id_op, b_p), Sub(id_op, b_q))
        final_coeff == IF p = s THEN <<2, 0>> ELSE <<-2, 0>>
    IN  Returned(Scale(CMul(final_coeff, h2_pqrs), qubit_op))

_excitation_operator(el, p, q, h1_pq) ==
    IF p >= q THEN Raised("ValueError")
    ELSE LET b_a == edge_operator_bi(el, p)
             b_b == edge_operator_bi(el, q)
             a_ab == edge_operator_aij(el, p, q)
         IN  IF a_ab.exc # "none" THEN Raised(a_ab.exc)
             ELSE Returned(Scale(CMul(<<0, -4>>, h1_pq),
                                 Add(Compose(b_b, a_ab.op), Compose(a_ab.op, b_a))))

_double_excitation(el, p, q, r, s, h2_pqrs) ==
    LET b_p == edge_operator_bi(el, p)
        b_q == edge_operator_bi(el, q)
        b_r == edge_operator_bi(el, r)
        b_s == edge_operator_bi(el, s)
        a_pq0 == edge_operator_aij(el, p, q)
        a_rs0 == edge_operator_aij(el, r, s)
        a_pq == IF q < p THEN Neg(a_pq0.op) ELSE a_pq0.op
        a_rs == IF s < r THEN Neg(a_rs0.op) ELSE a_rs0.op
        id_op == _pauli_id(Len(el))
        bracket ==
            Sub(Sub(Add(Add(Add(Add(Sub(Neg(id_op), Dot(b_p, b_q)),
                                    Dot(b_p, b_r)),
                                Dot(b_p, b_s)),
                            Dot(b_q, b_r)),
                        Dot(b_q, b_s)),
                    Dot(b_r, b_s)),
                Dot(Dot(Dot(b_p, b_q), b_r), b_s))
    IN  IF a_pq0.exc # "none" THEN Raised(a_pq0.exc)
        ELSE IF a_rs0.exc # "none" THEN Raised(a_rs0.exc)
        ELSE Returned(Scale(CMul(<<1, 0>>, h2_pqrs), Dot(Dot(a_pq, a_rs), bracket)))

\* one branch of _number_excitation: A between modes a and b, B of b, B of the
\* other unshared mode (b_other) and of the shared mode (b_shared)
NumberExcitationBranch(el, a, b, b_other, b_shared, final_coeff, h2_pqrs) ==
    LET b_b == edge_operator_bi(el, b)
        a_ab0 == edge_operator_aij(el, a, b)
        a_ab == IF b < a THEN Neg(a_ab0.op) ELSE a_ab0.op
        id_op == _pauli_id(Len(el))
        qubit_op == Dot(Add(Dot(a_ab, b_b), Dot(b_other, a_ab)), Sub(id_op, b_shared))
    IN  IF a_ab0.exc # "none" THEN Raised(a_ab0.exc)
        ELSE Returned(Scale(CMul(final_coeff, h2_pqrs), qubit_op))

_number_excitation(el, p, q, r, s, h2_pqrs) ==
    LET b_p == edge_operator_bi(el, p)
        b_q == edge_operator_bi(el, q)
    IN  IF p = r THEN NumberExcitationBranch(el, q, s, b_q, b_p, <<0, 2>>, h2_pqrs)
        ELSE IF p = s THEN NumberExcitationBranch(el, q, r, b_q, b_p, <<0, -2>>, h2_pqrs)
        ELSE IF q = r THEN NumberExcitationBranch(el, p, s, b_p, b_q, <<0, -2>>, h2_pqrs)
        ELSE IF q = s THEN NumberExcitationBranch(el, p, r, b_p, b_q, <<0, 2>>, h2_pqrs)
        ELSE Raised("ValueError")

---------------------------------------------------------------------------
(* Accumulator: _add_sparse_pauli, _to_physicist_index_order and one pass  *)
(* of the loop of _convert_operators.                                      *)

\* the accumulator is None or an operator
None == [none |-> TRUE, op |-> <<>>]

Some(op) == [none |-> FALSE, op |-> op]

\* _add_sparse_pauli keeping the second operand only
_add_sparse_pauli_overwrite(qubit_op1, qubit_op2) == qubit_op2

_add_sparse_pauli(qubit_op1, qubit_op2) ==
    IF qubit_op1.none THEN qubit_op2
    ELSE IF qubit_op2.none THEN qubit_op1
    ELSE Some(Add(qubit_op1.op, qubit_op2.op))

\* _to_physicist_index_order giving the pattern (+,-,+,-) the phase +1
_to_physicist_index_order_same_phase(facs) ==
    LET ops == [n \in 1 .. Len(facs) |-> facs[n][2]]
    IN  IF ops = <<"+", "+", "-", "-">>
        THEN [exc |-> "none", facs |-> facs, phase |-> 1]
        ELSE IF ops = <<"+", "-", "+", "-">>
        THEN [exc |-> "none", facs |-> <<facs[1], facs[3], facs[2], facs[4]>>,
              phase |-> 1]
        ELSE IF ops = <<"+", "-", "-", "+">>
        THEN [exc |-> "none", facs |-> <<facs[1], facs[4], facs[2], facs[3]>>,
              phase |-> 1]
        ELSE [exc |-> "ValueError", facs |-> <<>>, phase |-> 0]

_to_physicist_index_order(facs) ==
    LET ops == [n \in 1 .. Len(facs) |-> facs[n][2]]
    IN  IF ops = <<"+", "+", "-", "-">>
        THEN [exc |-> "none", facs |-> facs, phase |-> 1]
        ELSE IF ops = <<"+", "-", "+", "-">>
        THEN [exc |-> "none", facs |-> <<facs[1], facs[3], facs[2], facs[4]>>,
              phase |-> -1]
        ELSE IF ops = <<"+", "-", "-", "+">>
        THEN [exc |-> "none", facs |-> <<facs[1], facs[4], facs[2], facs[3]>>,
              phase |-> 1]
        ELSE [exc |-> "ValueError", facs |-> <<>>, phase |-> 0]

\* the test of line 471 alone, without the look past a leading number operator
IsSkipped_first_factor_only(facs) == facs[1][2] = "-"

\* lines 471-476: the term is the Hermitian-conjugate half to leave out
IsSkipped(facs) ==
    \/ facs[1][2] = "-"
    \/ /\ facs[1][1] = facs[2][1]
       /\ Len(facs) > 2
       /\ facs[3][2] = "-"

\* lines 478-509: the contribution of a term that is not skipped
Dispatch(el, term, term_type, facs) ==
    IF term_type = "number"
    THEN _number_operator(el, facs[1][1], operator_coefficient(term))
    ELSE IF term_type = "excitation"
    THEN _excitation_operator(el, facs[1][1], facs[2][1], operator_coefficient(term))
    ELSE LET ro == _to_physicist_index_order(facs)
             h2_pqrs == CMul(<<ro.phase, 0>>, operator_coefficient(term))
             p == ro.facs[1][1]
             q == ro.facs[2][1]
             r == ro.facs[3][1]
             s == ro.facs[4][1]
         IN  IF ro.exc # "none" THEN Raised(ro.exc)
             ELSE IF term_type = "double_excitation"
             THEN _double_excitation(el, p, q, r, s, h2_pqrs)
             ELSE IF term_type = "coulomb_exchange"
             THEN _coulomb_exchange(el, p, q, s, h2_pqrs)
             ELSE IF term_type = "number_excitation"
             THEN _number_excitation(el, p, q, r, s, h2_pqrs)
             ELSE Raised("ValueError")

\* the argument pairs (i, j) of the calls of edge_operator_aij that the
\* formula of a term that is not skipped makes (lines 63, 75-76, 104, 110,
\* 116, 122)
AijArguments(term_type, facs) ==
    IF term_type \in {"number", "coulomb_exchange"} THEN {}
    ELSE IF term_type = "excitation" THEN {<<facs[1][1], facs[2][1]>>}
    ELSE LET ro == _to_physicist_index_order(facs)
             p == ro.facs[1][1]
             q == ro.facs[2][1]
             r == ro.facs[3][1]
             s == ro.facs[4][1]
         IN  IF ro.exc # "none" THEN {}
             ELSE IF term_type = "double_excitation" THEN {<<p, q>>, <<r, s>>}
             ELSE IF p = r THEN {<<q, s>>}
             ELSE IF p = s THEN {<<q, r>>}
             ELSE IF q = r THEN {<<p, s>>}
             ELSE IF q = s THEN {<<p, r>>}
             ELSE {}

\* one pass of the loop body of lines 469-509 on accumulator acc
ConvertTerm(acc, term, el) ==
    LET a == _analyze_term(operator_string(term))
    IN  IF a.exc # "none" THEN [exc |-> a.exc, acc |-> acc, skip |-> FALSE]
        ELSE IF IsSkipped(a.facs) THEN [exc |-> "none", acc |-> acc, skip |-> TRUE]
        ELSE LET d == Dispatch(el, term, a.ttype, a.facs)
             IN  IF d.exc # "none" THEN [exc |-> d.exc, acc |-> acc, skip |-> FALSE]
                 ELSE [exc |-> "none", acc |-> _add_sparse_pauli(acc, Some(d.op)),
                       skip |-> FALSE]

---------------------------------------------------------------------------
(* The loops as functions of the whole operator.                           *)

RECURSIVE AddEdgesFrom(_, _, _)
AddEdgesFrom(m, op, n) ==
    IF n > Len(op) THEN [exc |-> "none", m |-> m]
    ELSE LET r == _add_edges_for_term(m, operator_string(op[n]))
         IN  IF r.exc # "none" THEN r ELSE AddEdgesFrom(r.m, op, n + 1)

_get_adjacency_matrix(op) ==
    IF op = <<>> THEN [exc |-> "IndexError", m |-> <<>>]
    ELSE AddEdgesFrom(ZeroMatrix(number_of_modes(op)), op, 1)

bksf_edge_list_fermionic_op(op) ==
    LET r == _get_adjacency_matrix(op)
    IN  IF r.exc # "none" THEN [exc |-> r.exc, el |-> <<>>]
        ELSE [exc |-> "none", el |-> Nonzero(r.m)]

RECURSIVE ConvertFrom(_, _, _, _)
ConvertFrom(acc, op, el, n) ==
    IF n > Len(op) THEN [exc |-> "none", acc |-> acc]
    ELSE LET r == ConvertTerm(acc, op[n], el)
         IN  IF r.exc # "none" THEN [exc |-> r.exc, acc |-> acc]
             ELSE ConvertFrom(r.acc, op, el, n + 1)

_convert_operators(op, el) == ConvertFrom(None, op, el, 1)

\* BravyiKitaevSFMapper.map on a FermionicOp
Map(op) ==
    LET e == bksf_edge_list_fermionic_op(op)
        c == _convert_operators(op, e.el)
    IN  IF e.exc # "none" THEN [exc |-> e.exc, result |-> <<>>]
        ELSE IF c.exc # "none" THEN [exc |-> c.exc, result |-> <<>>]
        ELSE IF c.acc.none THEN [exc |-> "AttributeError", result |-> <<>>]
        ELSE [exc |-> "none", result |-> SortTerms(Simplify(c.acc.op))]

---------------------------------------------------------------------------
(* The inputs.  An input operator is built term by term, as the caller     *)
(* builds the FermionicOp it hands to map; its strings are the shapes      *)
(* below, each padded with identities to NModes modes.                     *)

Shapes ==
    { <<"N">>, <<"N", "N">>,
      <<"+", "-">>, <<"-", "+">>,
      <<"N", "+", "-">>, <<"N", "-", "+">>,
      <<"+", "N", "-">>, <<"-", "N", "+">>,
      <<"+", "-", "N">>, <<"-", "+", "N">>,
      <<"+", "+", "-", "-">>, <<"-", "-", "+", "+">>,
      <<"+", "-", "+", "-">>, <<"-", "+", "-", "+">>,
      <<"+", "-", "-", "+">>, <<"-", "+", "+", "-">>,
      <<"I", "+", "-">>, <<"I", "-", "+">>,
      \* not one- or two-body terms
      <<"+">>, <<"N", "N", "N">>,
      <<"N", "+", "+", "-", "-">>, <<"-", "N", "+", "+", "-">>,
      \* symbols outside I, N, +, -
      <<"a">>, <<"-", "a">> }

Pad(shape) == shape \o [n \in 1 .. (NModes - Len(shape)) |-> "I"]

TermStrings == {Pad(shape) : shape \in Shapes}

\* the coefficient of the n-th term of an input operator: the terms of an
\* operator carry the coefficients 1, 2, ... in the order they are added
CoeffOfTerm(n) == <<n, 0>>

NoCall == [fn |-> "none", args |-> <<>>]

NoRet == [exc |-> "none", val |-> <<>>]

---------------------------------------------------------------------------
(* BravyiKitaevSFMapper.map, one step per loop pass.                       *)

Init ==
    /\ fer_op = <<>>
    /\ pc = "build"
    /\ edge_matrix = <<>>
    /\ edge_list = <<>>
    /\ k = 0
    /\ sparse_pauli = None
    /\ skipped = {}
    /\ result = <<>>
    /\ err = "none"
    /\ call = NoCall
    /\ ret = NoRet

\* the caller adds a term to the operator it is building
AddTerm(term_str) ==
    /\ pc = "build"
    /\ Len(fer_op) < MaxTerms
    /\ fer_op' = Append(fer_op, <<term_str, CoeffOfTerm(Len(fer_op) + 1)>>)
    /\ UNCHANGED <<pc, edge_matrix, edge_list, k, sparse_pauli, skipped,
                   result, err, call, ret>>

\* instead of building an operator, the caller hands map something that is
\* no FermionicOp (line 450)
MapNonFermionic ==
    /\ pc = "build"
    /\ fer_op = <<>>
    /\ pc' = "error"
    /\ err' = "TypeError"
    /\ UNCHANGED <<fer_op, edge_matrix, edge_list, k, sparse_pauli, skipped,
                   result, call, ret>>

\* map is handed fer_op: _get_adjacency_matrix allocates the matrix
MapBegin ==
    /\ pc = "build"
    /\ IF fer_op = <<>>
       THEN /\ pc' = "error"
            /\ err' = "IndexError"
            /\ UNCHANGED <<edge_matrix, k>>
       ELSE /\ pc' = "edges"
            /\ edge_matrix' = ZeroMatrix(number_of_modes(fer_op))
            /\ k' = 1
            /\ UNCHANGED err
    /\ UNCHANGED <<fer_op, edge_list, sparse_pauli, skipped, result, call, ret>>

\* one pass of the loop of _get_adjacency_matrix
AddEdgesStep ==
    /\ pc = "edges"
    /\ k <= Len(fer_op)
    /\ LET r == _add_edges_for_term(edge_matrix, operator_string(fer_op[k]))
       IN  IF r.exc # "none"
           THEN /\ pc' = "error"
                /\ err' = r.exc
                /\ UNCHANGED <<edge_matrix, k>>
           ELSE /\ edge_matrix' = r.m
                /\ k' = k + 1
                /\ UNCHANGED <<pc, err>>
    /\ UNCHANGED <<fer_op, edge_list, sparse_pauli, skipped, result, call, ret>>

\* bksf_edge_list_fermionic_op returns; _convert_operators starts
EdgeListStep ==
    /\ pc = "edges"
    /\ k > Len(fer_op)
    /\ edge_list' = Nonzero(edge_matrix)
    /\ pc' = "convert"
    /\ k' = 1
    /\ sparse_pauli' = None
    /\ UNCHANGED <<fer_op, edge_matrix, skipped, result, err, call, ret>>

\* one pass of the loop of _convert_operators
ConvertStep ==
    /\ pc = "convert"
    /\ k <= Len(fer_op)
    /\ LET r == ConvertTerm(sparse_pauli, fer_op[k], edge_list)
       IN  IF r.exc # "none"
           THEN /\ pc' = "error"
                /\ err' = r.exc
                /\ UNCHANGED <<k, sparse_pauli, skipped>>
           ELSE /\ sparse_pauli' = r.acc
                /\ skipped' = IF r.skip THEN skipped \cup {k} ELSE skipped
                /\ k' = k + 1
                /\ UNCHANGED <<pc, err>>
    /\ UNCHANGED <<fer_op, edge_matrix, edge_list, result, call, ret>>

\* _convert_operators returns; map simplifies and sorts (lines 457-463)
Canonicalize ==
    /\ pc = "convert"
    /\ k > Len(fer_op)
    /\ IF sparse_pauli.none
       THEN /\ pc' = "error"
            /\ err' = "AttributeError"
            /\ UNCHANGED result
       ELSE /\ pc' = "done"
            /\ result' = SortTerms(Simplify(sparse_pauli.op))
            /\ UNCHANGED err
    /\ UNCHANGED <<fer_op, edge_matrix, edge_list, k, sparse_pauli, skipped,
                   call, ret>>

Next ==
    \/ \E term_str \in TermStrings : AddTerm(term_str)
    \/ MapNonFermionic
    \/ MapBegin
    \/ AddEdgesStep
    \/ EdgeListStep
    \/ ConvertStep
    \/ Canonicalize

Spec == Init /\ [][Next]_vars

---------------------------------------------------------------------------
(* Direct calls of _interaction_type.                                      *)

Counts == 0 .. MaxCount

CallInteractionType(n_number, n_raise, n_lower) ==
    /\ call' = [fn |-> "_interaction_type", args |-> <<n_number, n_raise, n_lower>>]
    /\ ret' = LET t == _interaction_type(n_number, n_raise, n_lower)
              IN  IF t = "ValueError" THEN [exc |-> "ValueError", val |-> ""]
                  ELSE [exc |-> "none", val |-> t]
    /\ UNCHANGED <<fer_op, pc, edge_matrix, edge_list, k, sparse_pauli, skipped,
                   result, err>>

NextType ==
    \E n_number \in Counts, n_raise \in Counts, n_lower \in Counts :
        CallInteractionType(n_number, n_raise, n_lower)

SpecType == Init /\ [][NextType]_vars

---------------------------------------------------------------------------
(* Direct calls of the edge operators on the edge list of a graph over the *)
(* modes 0..GraphModes-1, as bksf_edge_list_fermionic_op lays it out.      *)

GraphNodes == 0 .. (GraphModes - 1)

UpperPairs == {p \in GraphNodes \X GraphNodes : p[1] < p[2]}

InitEdgeOps ==
    /\ fer_op = <<>>
    /\ pc = "build"
    /\ edge_matrix = <<>>
    /\ edge_list \in {SortedPairs(S) : S \in SUBSET UpperPairs}
    /\ k = 0
    /\ sparse_pauli = None
    /\ skipped = {}
    /\ result = <<>>
    /\ err = "none"
    /\ call = NoCall
    /\ ret = NoRet

CallEdgeOperatorBi(i) ==
    /\ call' = [fn |-> "edge_operator_bi", args |-> <<i>>]
    /\ ret' = [exc |-> "none", val |-> edge_operator_bi(edge_list, i)]
    /\ UNCHANGED <<fer_op, pc, edge_matrix, edge_list, k, sparse_pauli, skipped,
                   result, err>>

CallEdgeOperatorAij(i, j) ==
    /\ call' = [fn |-> "edge_operator_aij", args |-> <<i, j>>]
    /\ ret' = LET a == edge_operator_aij(edge_list, i, j)
              IN  [exc |-> a.exc, val |-> a.op]
    /\ UNCHANGED <<fer_op, pc, edge_matrix, edge_list, k, sparse_pauli, skipped,
                   result, err>>

NextEdgeOps ==
    \/ \E i \in GraphNodes : CallEdgeOperatorBi(i)
    \/ \E i \in GraphNodes, j \in GraphNodes : CallEdgeOperatorAij(i, j)

SpecEdgeOps == InitEdgeOps /\ [][NextEdgeOps]_vars

---------------------------------------------------------------------------
(* Direct calls of _to_physicist_index_order, one per behaviour, on lists  *)
(* of factors in non-decreasing mode order, as _unpack_term builds them.   *)

Factors == GraphNodes \X {"+", "-"}

FactorLists ==
    {facs \in UNION {[1 .. n -> Factors] : n \in 0 .. MaxFacs} :
        \A n \in 1 .. (Len(facs) - 1) : facs[n][1] <= facs[n + 1][1]}

CallToPhysicistIndexOrder(facs) ==
    /\ call = NoCall
    /\ call' = [fn |-> "_to_physicist_index_order", args |-> <<facs>>]
    /\ ret' = LET ro == _to_physicist_index_order(facs)
              IN  [exc |-> ro.exc, val |-> <<ro.facs, ro.phase>>]
    /\ UNCHANGED <<fer_op, pc, edge_matrix, edge_list, k, sparse_pauli, skipped,
                   result, err>>

NextOrder == \E facs \in FactorLists : CallToPhysicistIndexOrder(facs)

SpecOrder == Init /\ [][NextOrder]_vars

---------------------------------------------------------------------------
(* Direct calls of _number_excitation with coefficient 1 on the edge list  *)
(* of a graph over the modes 0..FormulaModes-1.                            *)

FormulaNodes == 0 .. (FormulaModes - 1)

InitFormulas ==
    /\ fer_op = <<>>
    /\ pc = "build"
    /\ edge_matrix = <<>>
    /\ edge_list \in {SortedPairs(S) :
                        S \in SUBSET {e \in FormulaNodes \X FormulaNodes : e[1] < e[2]}}
    /\ k = 0
    /\ sparse_pauli = None
    /\ skipped = {}
    /\ result = <<>>
    /\ err = "none"
    /\ call = NoCall
    /\ ret = NoRet

CallNumberExcitation(p, q, r, s) ==
    /\ call' = [fn |-> "_number_excitation", args |-> <<p, q, r, s>>]
    /\ ret' = LET d == _number_excitation(edge_list, p, q, r, s, <<1, 0>>)
              IN  [exc |-> d.exc, val |-> d.op]
    /\ UNCHANGED <<fer_op, pc, edge_matrix, edge_list, k, sparse_pauli, skipped,
                   result, err>>

NextFormulas ==
    \E p \in FormulaNodes, q \in FormulaNodes, r \in FormulaNodes, s \in FormulaNodes :
        CallNumberExcitation(p, q, r, s)

SpecFormulas == InitFormulas /\ [][NextFormulas]_vars

---------------------------------------------------------------------------
(* map on the H2 operator of test_h2.  The coefficients of the operator    *)
(* are the test's, rounded to 8 decimals and counted in units of 1e-8;     *)
(* the coefficients of the reference are the test's in units of 1e-8 / 8,  *)
(* the unit in which the model's map returns its result.  The caller       *)
(* hands map the 14 terms starting from any of them.                       *)

h2_fop ==
    << <<<<"+", "-", "+", "-">>, <<18128881, 0>>>>,
       <<<<"+", "-", "-", "+">>, <<-18128881, 0>>>>,
       <<<<"-", "+", "+", "-">>, <<-18128881, 0>>>>,
       <<<<"-", "+", "-", "+">>, <<18128881, 0>>>>,
       <<<<"I", "I", "I", "N">>, <<-47594872, 0>>>>,
       <<<<"I", "I", "N", "I">>, <<-125246357, 0>>>>,
       <<<<"I", "I", "N", "N">>, <<48217929, 0>>>>,
       <<<<"I", "N", "I", "I">>, <<-47594872, 0>>>>,
       <<<<"I", "N", "I", "N">>, <<69739377, 0>>>>,
       <<<<"I", "N", "N", "I">>, <<66346810, 0>>>>,
       <<<<"N", "I", "I", "I">>, <<-125246357, 0>>>>,
       <<<<"N", "I", "I", "N">>, <<66346810, 0>>>>,
       <<<<"N", "I", "N", "I">>, <<67448877, 0>>>>,
       <<<<"N", "N", "I", "I">>, <<48217929, 0>>>> >>

expected_pauli_op ==
    << <<<<"I", "I", "I", "I">>, <<-650094370, 0>>>>,
       <<<<"I", "I", "Z", "Z">>, <<136958199, 0>>>>,
       <<<<"I", "Y", "Y", "I">>, <<36257762, 0>>>>,
       <<<<"I", "Z", "I", "Z">>, <<136958199, 0>>>>,
       <<<<"I", "Z", "Z", "I">>, <<274376507, 0>>>>,
       <<<<"X", "I", "I", "X">>, <<36257762, 0>>>>,
       <<<<"Y", "I", "I", "Y">>, <<36257762, 0>>>>,
       <<<<"Y", "Z", "Z", "Y">>, <<36257762, 0>>>>,
       <<<<"Z", "I", "I", "Z">>, <<265387239, 0>>>>,
       <<<<"Z", "I", "Z", "I">>, <<-178228744, 0>>>>,
       <<<<"Z", "X", "X", "Z">>, <<36257762, 0>>>>,
       <<<<"Z", "Y", "Y", "Z">>, <<36257762, 0>>>>,
       <<<<"Z", "Z", "I", "I">>, <<-178228744, 0>>>>,
       <<<<"Z", "Z", "Z", "Z">>, <<192871715, 0>>>> >>

\* the term list op started at its (n+1)-th term
Rotated(op, n) == [m \in 1 .. Len(op) |-> op[((m - 1 + n) % Len(op)) + 1]]

InitH2 ==
    /\ fer_op \in {Rotated(h2_fop, n) : n \in 0 .. (Len(h2_fop) - 1)}
    /\ pc = "build"
    /\ edge_matrix = <<>>
    /\ edge_list = <<>>
    /\ k = 0
    /\ sparse_pauli = None
    /\ skipped = {}
    /\ result = <<>>
    /\ err = "none"
    /\ call = NoCall
    /\ ret = NoRet

NextH2 ==
    \/ MapBegin
    \/ AddEdgesStep
    \/ EdgeListStep
    \/ ConvertStep
    \/ Canonicalize

SpecH2 == InitH2 /\ [][NextH2]_vars

---------------------------------------------------------------------------
(* Vocabulary of the properties.                                           *)

\* the table of interaction categories: the category of a count triple, or
\* "invalid" when the triple is no row of the table
TableCategory(t) ==
    CASE t = <<1, 0, 0>> -> "number"
      [] t = <<2, 0, 0>> -> "coulomb_exchange"
      [] t = <<0, 1, 1>> -> "excitation"
      [] t = <<1, 1, 1>> -> "number_excitation"
      [] t = <<0, 2, 2>> -> "double_excitation"
      [] OTHER -> "invalid"

\* the qubit positions where a one-term operator carries a Z bit, an X bit
ZPositions(op) == {pos \in DOMAIN op[1].z : op[1].z[pos]}

XPositions(op) == {pos \in DOMAIN op[1].x : op[1].x[pos]}

Positions(el) == 0 .. (Len(el) - 1)

\* op is one Pauli term of coefficient 1 over exactly n qubits
SingleTermOfLength(op, n) ==
    /\ Len(op) = 1
    /\ op[1].coeff = <<1, 0>>
    /\ DOMAIN op[1].z = 0 .. (n - 1)
    /\ DOMAIN op[1].x = 0 .. (n - 1)

\* the two modes of the edge at position pos
Ends(el, pos) == {el[pos + 1][1], el[pos + 1][2]}

\* the endpoint of the edge at position pos that is not mode a
OtherEnd(el, pos, a) == CHOOSE b \in Ends(el, pos) : Ends(el, pos) = {a, b}

CompleteGraph4 == <<<<0, 1>>, <<0, 2>>, <<0, 3>>, <<1, 2>>, <<1, 3>>, <<2, 3>>>>

---------------------------------------------------------------------------
(* Properties of _interaction_type (SpecType).                             *)

\* C1: _interaction_type returns a category if and only if the count triple
\* is a row of the table, and then that row's category; on every other
\* triple it raises.
C1_CategoryIffTableRow ==
    call.fn = "_interaction_type" =>
        IF TableCategory(call.args) # "invalid"
        THEN ret.exc = "none" /\ ret.val = TableCategory(call.args)
        ELSE ret.exc # "none"

---------------------------------------------------------------------------
(* Properties of the edge operators (SpecEdgeOps).                         *)

\* C5: edge_operator_bi(edge_list, i) is one Pauli term of length E with no
\* X bit and a Z bit exactly at the positions of the edges incident to i; on
\* the complete 4-mode graph B(0) has Z at {0,1,2} and B(3) at {2,4,5}.
C5_BiMarksIncidentEdges ==
    call.fn = "edge_operator_bi" =>
        LET i == call.args[1]
        IN  /\ ret.exc = "none"
            /\ SingleTermOfLength(ret.val, Len(edge_list))
            /\ XPositions(ret.val) = {}
            /\ \A pos \in Positions(edge_list) :
                    ret.val[1].z[pos] <=> i \in Ends(edge_list, pos)
            /\ (edge_list = CompleteGraph4 /\ i = 0) => ZPositions(ret.val) = {0, 1, 2}
            /\ (edge_list = CompleteGraph4 /\ i = 3) => ZPositions(ret.val) = {2, 4, 5}

C5_Witness ==
    /\ call = [fn |-> "edge_operator_bi", args |-> <<3>>]
    /\ edge_list = CompleteGraph4
    /\ ZPositions(ret.val) = {2, 4, 5}

\* C6: for an edge (i,j) of the edge list, edge_operator_aij is one Pauli
\* term of length E with its only X bit at the position of (i,j) and a Z bit
\* exactly at the other edges incident to i whose other endpoint is below j
\* and the other edges incident to j whose other endpoint is below i; on the
\* complete 4-mode graph A(0,1) is X at position 0 and identity elsewhere.
C6_AijOfAnEdge ==
    (call.fn = "edge_operator_aij"
        /\ \E pos \in Positions(edge_list) : edge_list[pos + 1] = call.args) =>
        LET i == call.args[1]
            j == call.args[2]
            at == CHOOSE pos \in Positions(edge_list) : edge_list[pos + 1] = <<i, j>>
        IN  /\ ret.exc = "none"
            /\ SingleTermOfLength(ret.val, Len(edge_list))
            /\ XPositions(ret.val) = {at}
            /\ at \notin ZPositions(ret.val)
            /\ \A pos \in Positions(edge_list) \ {at} :
                    ret.val[1].z[pos] <=>
                        \/ i \in Ends(edge_list, pos) /\ OtherEnd(edge_list, pos, i) < j
                        \/ j \in Ends(edge_list, pos) /\ OtherEnd(edge_list, pos, j) < i
            /\ (edge_list = CompleteGraph4 /\ i = 0 /\ j = 1) =>
                    XPositions(ret.val) = {0} /\ ZPositions(ret.val) = {}

C6_Witness ==
    /\ call = [fn |-> "edge_operator_aij", args |-> <<1, 3>>]
    /\ edge_list = CompleteGraph4
    /\ XPositions(ret.val) = {4}
    /\ ZPositions(ret.val) = {0, 2, 3}

\* C7 as stated: on the complete 4-mode graph A(2,3) is X at position 5, Z at
\* positions 1 and 3, identity at positions 0, 2 and 4.
C7_A23_ZOnlyAtEdgesOfMode2 ==
    (call = [fn |-> "edge_operator_aij", args |-> <<2, 3>>]
        /\ edge_list = CompleteGraph4) =>
        /\ ret.exc = "none"
        /\ XPositions(ret.val) = {5}
        /\ ZPositions(ret.val) = {1, 3}

\* C7 as amended: on the complete 4-mode graph A(2,3) is X at position 5, Z at
\* positions 1, 2, 3 and 4 (the edges (0,2), (0,3), (1,2), (1,3)), identity
\* at position 0 only.
C7_A23_ZAtEdgesOfBothModes ==
    (call = [fn |-> "edge_operator_aij", args |-> <<2, 3>>]
        /\ edge_list = CompleteGraph4) =>
        /\ ret.exc = "none"
        /\ SingleTermOfLength(ret.val, 6)
        /\ XPositions(ret.val) = {5}
        /\ ZPositions(ret.val) = {1, 2, 3, 4}

C7_Witness ==
    /\ call = [fn |-> "edge_operator_aij", args |-> <<2, 3>>]
    /\ edge_list = CompleteGraph4
    /\ ret.exc = "none"

\* C8: edge_operator_aij(edge_list, i, j) raises whenever {i,j} is no edge of
\* the edge list, i = j included, whether the edge list is empty or not.
C8_MissingEdgeRaises ==
    (call.fn = "edge_operator_aij"
        /\ \A pos \in Positions(edge_list) :
                Ends(edge_list, pos) # {call.args[1], call.args[2]}) =>
        ret.exc # "none"

---------------------------------------------------------------------------
(* Properties of map (Spec).                                               *)

HasBadSymbol(term_str) ==
    \E n \in 1 .. Len(term_str) : term_str[n] \notin {"I", "N", "+", "-"}

\* the category of an operator string by the table, "invalid" when it has a
\* symbol outside I, N, +, - or its counts are no row of the table
Category(term_str) ==
    IF HasBadSymbol(term_str) THEN "invalid"
    ELSE TableCategory(<<CountOf(term_str, "N"), CountOf(term_str, "+"),
                         CountOf(term_str, "-")>>)

AllInTable(op) == \A n \in 1 .. Len(op) : Category(op[n][1]) # "invalid"

ModesOf(term_str, c) == {n - 1 : n \in {m \in 1 .. Len(term_str) : term_str[m] = c}}

\* the edge joining the two modes of S, lesser mode first
EdgeOf(S) ==
    LET lo == CHOOSE a \in S : \A b \in S : a <= b
        hi == CHOOSE a \in S : \A b \in S : b <= a
    IN  <<lo, hi>>

\* the edges the graph owes to one term of the five categories
ClaimEdges(term_str) ==
    CASE Category(term_str) \in {"excitation", "number_excitation"} ->
            {EdgeOf(ModesOf(term_str, "+") \cup ModesOf(term_str, "-"))}
      [] Category(term_str) = "double_excitation" ->
            {EdgeOf(ModesOf(term_str, "+")), EdgeOf(ModesOf(term_str, "-"))}
      [] OTHER -> {}

Range(seq) == {seq[n] : n \in 1 .. Len(seq)}

\* the edge list has been returned by bksf_edge_list_fermionic_op
EdgeListBuilt == pc \in {"convert", "done"}

\* the string of the Hermitian conjugate: + and - exchanged
Conj(term_str) ==
    [n \in 1 .. Len(term_str) |->
        CASE term_str[n] = "+" -> "-"
          [] term_str[n] = "-" -> "+"
          [] OTHER -> term_str[n]]

\* the first + or - of the string is a -
FirstLadderIsLower(term_str) ==
    \E n \in 1 .. Len(term_str) :
        /\ term_str[n] = "-"
        /\ \A m \in 1 .. (n - 1) : term_str[m] \notin {"+", "-"}

NotSelfConjugate == {"excitation", "number_excitation", "double_excitation"}

Remove(op, n) == [m \in 1 .. (Len(op) - 1) |-> IF m < n THEN op[m] ELSE op[m + 1]]

Perms(n) == {f \in [1 .. n -> 1 .. n] : \A a, b \in 1 .. n : f[a] = f[b] => a = b}

Permuted(op, f) == [n \in 1 .. Len(op) |-> op[f[n]]]

\* C2: map ends with an error, and returns no operator, whenever a term of
\* the input is malformed, wherever the term stands and also when it begins
\* with a lowering operator.
C2_MalformedTermIsFatal ==
    pc = "done" => AllInTable(fer_op)

\* C3: for an operator of terms of the five categories, the edge set built
\* is exactly the union over the terms of: the edge between the + and the -
\* mode of an excitation or number_excitation term, the edge between the two
\* + modes and the edge between the two - modes of a double_excitation term,
\* nothing for a number or coulomb_exchange term.
C3_EdgeSetIsUnionOverTerms ==
    (EdgeListBuilt /\ AllInTable(fer_op)) =>
        /\ Range(edge_list) = UNION {ClaimEdges(fer_op[n][1]) : n \in 1 .. Len(fer_op)}
        /\ (Len(fer_op) = 1 /\ fer_op[1][1] = Pad(<<"+", "-", "+", "-">>)) =>
                edge_list = <<<<0, 2>>, <<1, 3>>>>
        /\ (Len(fer_op) = 1 /\ fer_op[1][1] = Pad(<<"+", "-", "-", "+">>)) =>
                edge_list = <<<<0, 3>>, <<1, 2>>>>

C3_Witness ==
    /\ pc = "convert"
    /\ Len(fer_op) = 2
    /\ Category(fer_op[1][1]) = "number_excitation"
    /\ Category(fer_op[2][1]) = "double_excitation"
    /\ Len(edge_list) = 3

\* C4: whatever the order and the repetitions of the terms, the edge list has
\* i < j in every edge and lists the edges of the graph, each once, in
\* strictly increasing row-major order: it is a function of the edge set.
C4_EdgeListSortedNoDuplicates ==
    EdgeListBuilt =>
        /\ \A n \in 1 .. Len(edge_list) : edge_list[n][1] < edge_list[n][2]
        /\ \A m, n \in 1 .. Len(edge_list) :
                m < n => PairLess(edge_list[m], edge_list[n])
        /\ Range(edge_list) = {p \in DOMAIN edge_matrix : edge_matrix[p]}

\* the second term adds the edge (0,1), which sorts before both edges (0,3)
\* and (1,2) that the first term added
C4_Witness ==
    /\ pc = "convert"
    /\ Len(fer_op) = 2
    /\ ClaimEdges(fer_op[1][1]) = {<<0, 3>>, <<1, 2>>}
    /\ ClaimEdges(fer_op[2][1]) = {<<0, 1>>}
    /\ edge_list = <<<<0, 1>>, <<0, 3>>, <<1, 2>>>>

\* C9: of the terms the loop of _convert_operators has visited, a number or
\* coulomb_exchange term is never skipped, and an excitation,
\* number_excitation or double_excitation term is skipped exactly when its
\* first + or - is a -, so exactly one of a term and its conjugate is
\* converted; and map of an operator holding a term and its skipped
\* conjugate returns what it returns without the conjugate.
C9_OneOfEachConjugatePair ==
    /\ EdgeListBuilt =>
        \A n \in 1 .. Len(fer_op) :
            (n < k /\ Category(fer_op[n][1]) # "invalid") =>
                (n \in skipped <=>
                    /\ Category(fer_op[n][1]) \in NotSelfConjugate
                    /\ FirstLadderIsLower(fer_op[n][1]))
    /\ pc = "done" =>
        \A m, n \in 1 .. Len(fer_op) :
            (/\ Category(fer_op[m][1]) \in NotSelfConjugate
             /\ fer_op[n][1] = Conj(fer_op[m][1])
             /\ n \in skipped) =>
                /\ m \notin skipped
                /\ Map(Remove(fer_op, n)) = [exc |-> "none", result |-> result]

C9_Witness ==
    /\ pc = "done"
    /\ Len(fer_op) = 2
    /\ fer_op[1][1] = Pad(<<"N", "+", "-">>)
    /\ fer_op[2][1] = Pad(<<"N", "-", "+">>)
    /\ skipped = {2}
    /\ sparse_pauli.none = FALSE

\* C10: the outcome of map does not depend on the order of the terms: when
\* map returns for a valid operator it returns the same sorted Pauli sum for
\* every permutation of the terms, and when it raises it raises for every
\* permutation.
C10_OrderOfTermsIrrelevant ==
    /\ (pc = "done" /\ AllInTable(fer_op)) =>
        \A f \in Perms(Len(fer_op)) :
            Map(Permuted(fer_op, f)) = [exc |-> "none", result |-> result]
    /\ (pc = "error" /\ fer_op # <<>> /\ AllInTable(fer_op)) =>
        \A f \in Perms(Len(fer_op)) : Map(Permuted(fer_op, f)).exc = err

C10_Witness ==
    /\ pc = "done"
    /\ Len(fer_op) = 2
    /\ fer_op[1][1] = Pad(<<"+", "N", "-">>)
    /\ fer_op[2][1] = Pad(<<"+", "-", "-", "+">>)
    /\ skipped = {}
    /\ Len(result) > 2

---------------------------------------------------------------------------
(* The H2 operator of test_h2.                                             *)

\* the label of a Pauli term as qiskit writes it: the last qubit first
LabelOf(p) ==
    LET E == Cardinality(DOMAIN p.z)
    IN  [n \in 1 .. E |->
            CASE Letter(p.z[E - n], p.x[E - n]) = 0 -> "I"
              [] Letter(p.z[E - n], p.x[E - n]) = 1 -> "X"
              [] Letter(p.z[E - n], p.x[E - n]) = 2 -> "Y"
              [] OTHER -> "Z"]

Abs(n) == IF n < 0 THEN -n ELSE n

\* two coefficients in units of 1e-8 / 8 that differ by less than 1e-7
Near(a, b) == Abs(a[1] - b[1]) < 80 /\ Abs(a[2] - b[2]) < 80

\* C11: map of the 14-term H2 operator of the test returns a sorted Pauli
\* sum over the 4 qubits of the edges (0,2), (0,3), (1,2), (1,3) with
\* exactly 14 terms, equal term by term to the reference sum of the test,
\* whose identity term, -0.812618, has the largest magnitude.
C11_H2MatchesReference ==
    pc = "done" =>
        /\ edge_list = <<<<0, 2>>, <<0, 3>>, <<1, 2>>, <<1, 3>>>>
        /\ Len(result) = Len(expected_pauli_op)
        /\ \A n \in 1 .. Len(expected_pauli_op) :
                /\ LabelOf(result[n]) = expected_pauli_op[n][1]
                /\ Near(result[n].coeff, expected_pauli_op[n][2])
        /\ LabelOf(result[1]) = <<"I", "I", "I", "I">>
        /\ Abs(result[1].coeff[1] - (-650094400)) < 800
        /\ \A n \in 2 .. Len(result) :
                Abs(result[n].coeff[1]) < Abs(result[1].coeff[1])

---------------------------------------------------------------------------
(* _to_physicist_index_order.                                              *)

KindsOf(facs) == [n \in 1 .. Len(facs) |-> facs[n][2]]

PhysicistPatterns ==
    {<<"+", "+", "-", "-">>, <<"+", "-", "+", "-">>, <<"+", "-", "-", "+">>}

\* C12: on four factors in non-decreasing mode order
\* _to_physicist_index_order returns, for the kinds (+,+,-,-), the factors
\* unchanged and the phase +1, for (+,-,+,-) the factors f0,f2,f1,f3 and the
\* phase -1, for (+,-,-,+) the factors f0,f3,f1,f2 and the phase +1; what it
\* returns is two creation factors in ascending mode order followed by two
\* annihilation factors in ascending mode order; on every other list of
\* kinds, of length 4 or not, it raises.
C12_PhysicistOrder ==
    call.fn = "_to_physicist_index_order" =>
        LET facs == call.args[1]
            ops == KindsOf(facs)
            out == ret.val[1]
        IN  /\ ops = <<"+", "+", "-", "-">> => ret.val = <<facs, 1>>
            /\ ops = <<"+", "-", "+", "-">> =>
                    ret.val = <<<<facs[1], facs[3], facs[2], facs[4]>>, -1>>
            /\ ops = <<"+", "-", "-", "+">> =>
                    ret.val = <<<<facs[1], facs[4], facs[2], facs[3]>>, 1>>
            /\ ops \in PhysicistPatterns =>
                    /\ ret.exc = "none"
                    /\ KindsOf(out) = <<"+", "+", "-", "-">>
                    /\ out[1][1] <= out[2][1]
                    /\ out[3][1] <= out[4][1]
            /\ ops \notin PhysicistPatterns => ret.exc = "ValueError"

\* the factors of "+--+" come back as modes 0, 3, 1, 2
C12_Witness ==
    /\ call.fn = "_to_physicist_index_order"
    /\ call.args[1] = <<<<0, "+">>, <<1, "-">>, <<2, "-">>, <<3, "+">>>>
    /\ ret = [exc |-> "none",
              val |-> <<<<<<0, "+">>, <<3, "+">>, <<1, "-">>, <<2, "-">>>>, 1>>]

---------------------------------------------------------------------------
(* _number_excitation.                                                     *)

\* how many of p = r, p = s, q = r, q = s hold
Equalities(p, q, r, s) ==
    Cardinality({n \in 1 .. 4 :
        \/ n = 1 /\ p = r
        \/ n = 2 /\ p = s
        \/ n = 3 /\ q = r
        \/ n = 4 /\ q = s})

\* coeff * (A(a,b) B(b) + B(a) A(a,b)) (I - B(shared)), A negated when b < a;
\* coeff in units of 1/8
SharedModeCase(el, a, b, shared, coeff) ==
    LET a_ab0 == edge_operator_aij(el, a, b)
        a_ab == IF b < a THEN Neg(a_ab0.op) ELSE a_ab0.op
        b_a == edge_operator_bi(el, a)
        b_b == edge_operator_bi(el, b)
        b_shared == edge_operator_bi(el, shared)
    IN  IF a_ab0.exc # "none" THEN [exc |-> a_ab0.exc, val |-> <<>>]
        ELSE [exc |-> "none",
              val |-> Scale(coeff, Dot(Add(Dot(a_ab, b_b), Dot(b_a, a_ab)),
                                       Sub(_pauli_id(Len(el)), b_shared)))]

\* C13: _number_excitation(p, q, r, s; h) takes the case of the one equality
\* that holds among p = r, p = s, q = r, q = s, with coefficient +i h/4,
\* -i h/4, -i h/4, +i h/4 in that order, the A operator between the two
\* modes that are not shared and the factor I - B(shared mode); and it
\* raises an error whenever it is not exactly one of the four equalities
\* that holds.
C13_NumberExcitationCases ==
    call.fn = "_number_excitation" =>
        LET p == call.args[1]
            q == call.args[2]
            r == call.args[3]
            s == call.args[4]
        IN  IF Equalities(p, q, r, s) = 1
            THEN ret = (CASE p = r -> SharedModeCase(edge_list, q, s, p, <<0, 2>>)
                          [] p = s -> SharedModeCase(edge_list, q, r, p, <<0, -2>>)
                          [] q = r -> SharedModeCase(edge_list, p, s, q, <<0, -2>>)
                          [] q = s -> SharedModeCase(edge_list, p, r, q, <<0, 2>>))
            ELSE ret.exc # "none"

\* the first half of C13 alone: the case of exactly one equality
C13_ExactlyOneEquality ==
    (call.fn = "_number_excitation"
        /\ Equalities(call.args[1], call.args[2], call.args[3], call.args[4]) = 1) =>
            C13_NumberExcitationCases

\* the second half of C13 where no equality holds
C13_NoEquality ==
    (call.fn = "_number_excitation"
        /\ Equalities(call.args[1], call.args[2], call.args[3], call.args[4]) = 0) =>
            ret.exc = "ValueError"

---------------------------------------------------------------------------
(* The calls of edge_operator_aij that map makes.                          *)

\* the argument pairs of the calls of edge_operator_aij made for term
AijCallsOf(term) ==
    LET a == _analyze_term(operator_string(term))
    IN  IF a.exc # "none" \/ IsSkipped(a.facs) THEN {}
        ELSE AijArguments(a.ttype, a.facs)

\* C14: while map converts an operator whose terms all belong to the five
\* categories, every call edge_operator_aij(edge_list, i, j) that the
\* formula of a term makes has i < j and (i, j) a column of the edge list
\* built from that operator, so the position of the edge is found and no A
\* operator is negated.
C14_AijCalledOnListedEdges ==
    (EdgeListBuilt /\ AllInTable(fer_op)) =>
        \A n \in 1 .. Len(fer_op) :
            \A e \in AijCallsOf(fer_op[n]) :
                /\ e[1] < e[2]
                /\ e \in Range(edge_list)
                /\ PositionIJ(edge_list, e[1], e[2]) # -1

\* a double excitation and a number excitation have both been converted
C14_Witness ==
    /\ pc = "done"
    /\ Len(fer_op) = 2
    /\ fer_op[1][1] = Pad(<<"+", "-", "-", "+">>)
    /\ fer_op[2][1] = Pad(<<"+", "-", "N">>)
    /\ AijCallsOf(fer_op[1]) = {<<0, 3>>, <<1, 2>>}
    /\ AijCallsOf(fer_op[2]) = {<<0, 1>>}
    /\ skipped = {}

---------------------------------------------------------------------------
(* The accumulator when canonicalization starts.                           *)

\* C15: for a non-empty operator whose terms all belong to the five
\* categories map does not end with an error, and when the loop of
\* _convert_operators has visited every term the accumulator is an operator,
\* not None, whichever terms were skipped.
C15_AccumulatorIsAnOperator ==
    (fer_op # <<>> /\ AllInTable(fer_op)) =>
        /\ pc # "error"
        /\ (pc = "convert" /\ k > Len(fer_op)) => ~sparse_pauli.none

---------------------------------------------------------------------------
(* The contribution of a coulomb_exchange term.                            *)

\* the least and the greatest mode of a non-empty set of modes
LeastOf(S) == CHOOSE a \in S : \A b \in S : a <= b

GreatestOf(S) == CHOOSE a \in S : \A b \in S : b <= a

\* (h/4) (I - B(p)) (I - B(q)), in units of 1/8
CoulombContribution(el, p, q, h) ==
    Scale(CMul(<<2, 0>>, h),
          Dot(Sub(_pauli_id(Len(el)), edge_operator_bi(el, p)),
              Sub(_pauli_id(Len(el)), edge_operator_bi(el, q))))

\* C16: when the loop of _convert_operators passes a coulomb_exchange term
\* N_p N_q, p < q, of coefficient h, the expanded factors have the kinds
\* (+,-,+,-), the phase is -1, the reordered quadruple is (p, q, p, q) with
\* s # p, and what is added to the accumulator is +(h/4) (I - B(p)) (I - B(q)).
C16_CoulombExchangeContribution ==
    [][(/\ pc = "convert"
        /\ k <= Len(fer_op)
        /\ k' = k + 1
        /\ Category(fer_op[k][1]) = "coulomb_exchange") =>
            LET p == LeastOf(ModesOf(fer_op[k][1], "N"))
                q == GreatestOf(ModesOf(fer_op[k][1], "N"))
                facs == _analyze_term(fer_op[k][1]).facs
                ro == _to_physicist_index_order(facs)
            IN  /\ p < q
                /\ KindsOf(facs) = <<"+", "-", "+", "-">>
                /\ ro.phase = -1
                /\ [n \in 1 .. 4 |-> ro.facs[n][1]] = <<p, q, p, q>>
                /\ ro.facs[4][1] # p
                /\ k \notin skipped'
                /\ sparse_pauli' =
                    _add_sparse_pauli(sparse_pauli,
                        Some(CoulombContribution(edge_list, p, q, fer_op[k][2])))]_vars

\* N_0 N_1 with coefficient 1 on the edges (0,3), (1,2) of "+--+" has added
\* (1/4) (I - Z_0 - Z_1 + Z_1 Z_0)
C16_Witness ==
    /\ pc = "convert"
    /\ k = 2
    /\ Len(fer_op) = 2
    /\ fer_op[1][1] = Pad(<<"N", "N">>)
    /\ fer_op[2][1] = Pad(<<"+", "-", "-", "+">>)
    /\ edge_list = <<<<0, 3>>, <<1, 2>>>>
    /\ ~sparse_pauli.none
    /\ Len(sparse_pauli.op) = 4
    /\ [n \in 1 .. 4 |-> sparse_pauli.op[n].coeff] =
            <<<<2, 0>>, <<-2, 0>>, <<-2, 0>>, <<2, 0>>>>

=============================================================================
